---- MODULE Spec2Model ----
(***************************************************************************)
(* State-machine model of the KMRL fleet dashboard:                        *)
(*   MetroDashboard.tsx    - the fleet snapshot (trainsets) built at mount  *)
(*   OptimizationPanel.tsx - runOptimization, its progress/log loop, the    *)
(*                           published results/metrics and the render that  *)
(*                           sorts the result list for display.             *)
(* Math.random() is an input: every draw is a number n/Scale in [0,1), and  *)
(* each generated object consumes its draws in source order.  Scale is a    *)
(* power of two, so n/Scale and its products with the integers of the code  *)
(* are exact as doubles.                                                    *)
(***************************************************************************)
EXTENDS Integers, Sequences, FiniteSets, TLC

\* ------------------------------------------------------------------ bounds
\* Number of trainsets generated (the literal 25 of Array.from({length: 25})
\* in both components, scaled down).
FleetSize == 2
\* Number of times runOptimization is started in one behaviour.
MaxRuns == 2
\* Number of calls left in flight by unmounted panel instances at one time.
MaxOrphans == 1
\* Resolution of the random source, in bits: a draw n stands for
\* Math.random() = n / 2^ScaleBits.
ScaleBits == 10

\* ------------------------------------------------------- program constants
\* branding.target
BrandingTarget == 85
\* mileage.target
MileageTarget == 45000

\* setTimeout(resolve, 800): the delay of one loop iteration, in ms
TimerDelay == 800
\* setInterval(..., 1000): the period of the dashboard clock, in ms
TickInterval == 1000
\* The interval fires once every TickInterval ms and successive run timers
\* are TimerDelay ms apart, so at most this many run timers fire between two
\* clock ticks.
MaxFiringsPerTick == (TickInterval \div TimerDelay) + 1

\* metrics is null, or holds one OptimizationMetrics object: a sequence of
\* length 0 or 1.
NULL == <<>>

\* --------------------------------------------------------- random source
\* A draw n is the double n/Scale: a dyadic fraction, exact in binary floating
\* point, as the values of Math.random() are.
Scale == 2^ScaleBits

\* Math.floor(Math.random() * k) for the draw n and an integer k: the product
\* (n/Scale) * k = n*k/Scale is exact in a double (n*k < 2^53), so the floor
\* is the integer quotient.
FloorRandom(n, k) == (n * k) \div Scale

\* Math.random() > num/den for the draw n and a decimal literal num/den that
\* is no multiple of 1/Scale: the literal's double differs from num/den by
\* less than 1/(den*Scale), so the comparison of the doubles is the
\* comparison of the fractions.
RandomAbove(n, num, den) == n * den > num * Scale

\* The draws of one trainset object, in evaluation order (17 draws):
\* status, rollingStock, signalling, telecom, jobCards.open, jobCards.total,
\* branding.priority, branding.exposure, mileage.current, mileage.variance,
\* cleaning.scheduled, cleaning.priority, bay.current, bay.optimal,
\* shuntingTime, recommendedAction, confidenceScore.
TrainsetDraws ==
  << <<0, 500, 500, 500, 0, 0, 0, 900, 700, 500, 500, 0, 0, 0, 0, 0, 999>>,
     <<999, 500, 500, 50, 0, 500, 500, 500, 0, 0, 0, 999, 999, 0, 999, 0, 0>>,
     <<300, 500, 500, 500, 999, 0, 999, 0, 999, 999, 500, 500, 500, 500, 500, 0, 500>>,
     <<600, 500, 500, 500, 0, 999, 400, 850, 700, 900, 500, 300, 200, 200, 100, 500, 300>> >>

\* The draws of one fleet: trainset k takes the draws o + k of the list above,
\* cyclically, for a starting point o; the second fleet goes on where the
\* first ends.
FleetDraws ==
  { [k \in 1..FleetSize |-> TrainsetDraws[((o + k - 1) % Len(TrainsetDraws)) + 1]] :
      o \in {0, FleetSize} }

\* The draws of one mock result, in evaluation order (4 draws):
\* action, score, reasoning slice, constraints slice.
ResultDraws ==
  << <<0, 0, 0, 0>>,
     <<500, 999, 999, 999>>,
     <<999, 500, 500, 500>> >>

\* The draws of one result set: result k takes the draws o + k of the list
\* above, cyclically, for a starting point o; or every result takes the same
\* draws.
ResultSetDraws ==
  { [k \in 1..FleetSize |-> ResultDraws[((o + k - 1) % Len(ResultDraws)) + 1]] :
      o \in 0..(Len(ResultDraws) - 1) }
  \cup { [k \in 1..FleetSize |-> ResultDraws[1]] }

\* The draws of the mock metrics, in evaluation order (6 draws).
MetricDraws ==
  { <<0, 0, 0, 0, 0, 0>>,
    <<999, 999, 999, 999, 999, 999>> }

\* ------------------------------------------------------------- identifiers
\* String(n).padStart(3, '0')
PadStart3(n) ==
  IF n < 10 THEN "00" \o ToString(n)
  ELSE IF n < 100 THEN "0" \o ToString(n)
  ELSE ToString(n)

\* `KMRL-${String(i + 1).padStart(3, '0')}` with k = i + 1
TrainNumber(k) == "KMRL-" \o PadStart3(k)

Statuses == <<"operational", "standby", "maintenance", "critical">>
Priorities == <<"high", "medium", "low">>
Actions == <<"induct", "standby", "maintenance">>

\* ------------------------------------------------ MetroDashboard: the fleet
\* Math.floor(Math.random() * 30) + 70: confidenceScore and result score
MockScore(n) == FloorRandom(n, 30) + 70

\* Faulty variant: total drawn without its floor of 5.
JobCardsWithoutFloor(o, t) ==
  [ open |-> FloorRandom(o, 5),
    total |-> FloorRandom(t, 10) ]

\* jobCards of one trainset, from its draws o (open) and t (total)
JobCardsOf(o, t) ==
  [ open |-> FloorRandom(o, 5),
    total |-> FloorRandom(t, 10) + 5 ]

\* One element of generateTrainsetData(): k = i + 1, d its 17 draws, t the
\* reading of new Date().
TrainsetOf(k, d, t) ==
  [ id |-> "train-" \o ToString(k),
    number |-> TrainNumber(k),
    status |-> Statuses[FloorRandom(d[1], Len(Statuses)) + 1],
    fitness |-> [ rollingStock |-> RandomAbove(d[2], 1, 10),
                  signalling |-> RandomAbove(d[3], 5, 100),
                  telecom |-> RandomAbove(d[4], 8, 100) ],
    jobCards |-> JobCardsOf(d[5], d[6]),
    branding |-> [ priority |-> Priorities[FloorRandom(d[7], 3) + 1],
                   exposure |-> FloorRandom(d[8], 100),
                   target |-> BrandingTarget ],
    mileage |-> [ current |-> FloorRandom(d[9], 50000) + 10000,
                  target |-> MileageTarget,
                  variance |-> FloorRandom(d[10], 10000) - 5000 ],
    cleaning |-> [ scheduled |-> RandomAbove(d[11], 3, 10),
                   priority |-> FloorRandom(d[12], 5) + 1 ],
    stablingBay |-> [ current |-> "Bay-" \o ToString(FloorRandom(d[13], 8) + 1),
                      optimal |-> "Bay-" \o ToString(FloorRandom(d[14], 8) + 1),
                      shuntingTime |-> FloorRandom(d[15], 30) + 5 ],
    lastUpdated |-> t,
    recommendedAction |-> Actions[FloorRandom(d[16], 3) + 1],
    confidenceScore |-> MockScore(d[17]) ]

\* generateTrainsetData(): ds[k] are the draws of element k
generateTrainsetData(ds, t) == [k \in 1..FleetSize |-> TrainsetOf(k, ds[k], t)]

\* --------------------------------------------- OptimizationPanel: one run
\* The stage messages of runOptimization, in list order.
logs ==
  << "Initializing multi-objective optimization engine...",
     "Loading trainset fitness certificates...",
     "Parsing Maximo job card exports...",
     "Calculating branding exposure requirements...",
     "Analyzing mileage balancing constraints...",
     "Evaluating cleaning schedule availability...",
     "Optimizing stabling bay geometry...",
     "Running constraint satisfaction algorithms...",
     "Applying machine learning predictive models...",
     "Generating ranked induction recommendations...",
     "Validation complete - Solution ready" >>

\* logs.length
LogCount == Len(logs)

ReasoningTexts ==
  << "All fitness certificates valid",
     "Zero open job cards",
     "High branding priority met",
     "Optimal mileage balance" >>

ConstraintTexts ==
  << "Telecom clearance expires in 6 hours",
     "Scheduled cleaning required",
     "Bay repositioning needed" >>

\* Array.prototype.slice(0, n)
SliceTo(s, n) == SubSeq(s, 1, IF n < Len(s) THEN n ELSE Len(s))

\* One element of mockResults: k = i + 1, d its 4 draws, t the reading of
\* new Date().
MockResultOf(k, d, t) ==
  [ trainsetId |-> TrainNumber(k),
    action |-> Actions[FloorRandom(d[1], 3) + 1],
    score |-> MockScore(d[2]),
    reasoning |-> SliceTo(ReasoningTexts, FloorRandom(d[3], 4) + 1),
    constraints |-> SliceTo(ConstraintTexts, FloorRandom(d[4], 3)),
    timestamp |-> t ]

\* mockResults: ds[k] are the draws of element k
MockResults(ds, t) == [k \in 1..FleetSize |-> MockResultOf(k, ds[k], t)]

\* mockMetrics from its 6 draws
MockMetrics(d) ==
  [ serviceReadiness |-> FloorRandom(d[1], 20) + 80,
    costEfficiency |-> FloorRandom(d[2], 15) + 85,
    brandingCompliance |-> FloorRandom(d[3], 10) + 90,
    maintenanceOptimization |-> FloorRandom(d[4], 25) + 75,
    stablingEfficiency |-> FloorRandom(d[5], 20) + 80,
    overallScore |-> FloorRandom(d[6], 15) + 85 ]

\* Faulty variant: the fraction taken from the loop index, (i / logs.length) * 100.
ProgressFromIndex(i) == [num |-> i * 100, den |-> LogCount]

\* ((i + 1) / logs.length) * 100 after the iteration with index i, kept as
\* the exact fraction num/den.
ProgressAfter(i) == [num |-> (i + 1) * 100, den |-> LogCount]

\* setProgress(0)
ProgressZero == [num |-> 0, den |-> 1]

\* ------------------------------------------------- render: the display sort
\* Faulty variant: x goes in front of the elements of equal score (a sort that
\* does not keep the order of equal elements).
RECURSIVE InsertBeforeEqual(_, _)
InsertBeforeEqual(x, s) ==
  IF s = <<>> THEN <<x>>
  ELSE IF Head(s).score > x.score THEN <<Head(s)>> \o InsertBeforeEqual(x, Tail(s))
  ELSE <<x>> \o s

\* Insert x behind the last element whose score is not below x's, so that
\* equal scores keep their order (Array.prototype.sort is stable).
RECURSIVE InsertByScore(_, _)
InsertByScore(x, s) ==
  IF s = <<>> THEN <<x>>
  ELSE IF Head(s).score >= x.score THEN <<Head(s)>> \o InsertByScore(x, Tail(s))
  ELSE <<x>> \o s

\* results.sort((a, b) => b.score - a.score): the array after the call
RECURSIVE SortByScoreDesc(_)
SortByScoreDesc(s) ==
  IF s = <<>> THEN <<>>
  ELSE InsertByScore(s[Len(s)], SortByScoreDesc(SubSeq(s, 1, Len(s) - 1)))

\* disabled={isOptimizing}: the Run button as a render leaves it
RenderedDisabled(optimizing) == optimizing

\* The result list as the render leaves it: the "all" list is built, and the
\* array sorted in place, only under metrics && results.length > 0.
AfterRender(res, met) ==
  IF met # NULL /\ Len(res) > 0 THEN SortByScoreDesc(res) ELSE res

\* results.filter(r => r.action === a)
RECURSIVE FilterByAction(_, _)
FilterByAction(res, a) ==
  IF res = <<>> THEN <<>>
  ELSE IF Head(res).action = a THEN <<Head(res)>> \o FilterByAction(Tail(res), a)
  ELSE FilterByAction(Tail(res), a)

\* The tabs of the recommendations card.
ResultTabs == {"all", "induct", "standby", "maintenance"}

\* The list one render shows under a tab ("all" first, sorting the array in
\* place; then each action tab filters that array and sorts its copy); no
\* list is built unless metrics && results.length > 0.
DisplayedList(res, met, tab) ==
  IF met = NULL \/ Len(res) = 0 THEN <<>>
  ELSE IF tab = "all" THEN SortByScoreDesc(res)
  ELSE SortByScoreDesc(FilterByAction(SortByScoreDesc(res), tab))

\* -------------------------------------------------- the dashboard's tabs
\* The values of the TabsTrigger / TabsContent elements of MetroDashboard.
OuterTabs == {"fleet", "optimization", "analytics"}

\* <Tabs defaultValue="fleet">
DefaultTab == "fleet"

\* The tab whose TabsContent holds <OptimizationPanel />.
PanelTab == "optimization"

\* ------------------------------------------------------------------- state
VARIABLES
  trainsets,        \* MetroDashboard: useState<TrainsetStatus[]>([])
  isSimulating,     \* MetroDashboard: useState(false)
  currentTime,      \* MetroDashboard: useState(new Date()), a reading of `now`
  activeTab,        \* the selected value of <Tabs>
  isOptimizing,     \* OptimizationPanel: useState(false)
  progress,         \* useState(0), as a fraction num/den
  results,          \* useState<OptimizationResult[]>([])
  metrics,          \* useState<OptimizationMetrics | null>(null)
  optimizationLogs, \* useState<string[]>([])
  pc,               \* position of the runOptimization call of the mounted
                    \* panel instance: "idle" | "await"
  i,                \* its loop index while pc = "await"
  orphaned,         \* the runOptimization calls still awaiting a timer whose
                    \* panel instance has been unmounted, in the order their
                    \* timers are due: the call's number, its loop index, and
                    \* whether its timer is due before the timer of the
                    \* mounted panel's call
  buttonDisabled,   \* the Run button's disabled attribute, as last rendered
  now,              \* the clock read by new Date(), in run timer periods
  run,              \* number of runOptimization calls started so far
  resultsRun,       \* the call whose setResults produced `results` (0: none)
  metricsRun,       \* the call whose setMetrics produced `metrics` (0: none)
  runPublished      \* the publication of the latest call has taken effect

vars == << trainsets, isSimulating, currentTime, activeTab, isOptimizing, progress,
           results, metrics, optimizationLogs, pc, i, orphaned, buttonDisabled,
           now, run, resultsRun, metricsRun, runPublished >>

\* The timers of all calls have the same delay, so they fire in the order
\* they were set: each call in flight fires once per period of TimerDelay ms,
\* in a fixed rotation, and a call that starts joins the rotation last.
\* The calls of unmounted instances with every timer marked due / not due
\* before the timer of the mounted panel's call.
WithDue(orph, d) == [k \in 1..Len(orph) |-> [orph[k] EXCEPT !.due = d]]

\* The rotation after the mounted panel's call (number n, loop index j) has
\* lost its panel: it keeps its place, behind the timers due before its own.
WithLiveCall(orph, n, j) ==
  LET ahead == SelectSeq(orph, LAMBDA o : o.due)
      behind == SelectSeq(orph, LAMBDA o : ~o.due)
  IN WithDue(ahead \o << [id |-> n, i |-> j, due |-> FALSE] >> \o behind, FALSE)

\* The next timer to fire is the one of the mounted panel's call.
LiveTimerNext ==
  /\ pc = "await"
  /\ Len(orphaned) > 0 => ~orphaned[1].due

\* The next timer to fire is the one of the first call without a panel.
OrphanTimerNext ==
  /\ Len(orphaned) > 0
  /\ pc = "await" => orphaned[1].due

\* The clock moves on by one period when the call that paces it fires: the
\* mounted panel's call, or else the oldest call in flight.
PacesClock(o) ==
  /\ pc # "await"
  /\ \A k \in 1..Len(orphaned) : o.id <= orphaned[k].id

\* The state after MetroDashboard is constructed and first rendered.  The
\* panel's variables hold the initial values of its useState calls whenever
\* no panel instance is mounted: a new instance starts from them.
Init ==
  /\ trainsets = <<>>
  /\ isSimulating = FALSE
  /\ currentTime = 0
  /\ activeTab = DefaultTab
  /\ isOptimizing = FALSE
  /\ progress = ProgressZero
  /\ results = <<>>
  /\ metrics = NULL
  /\ optimizationLogs = <<>>
  /\ pc = "idle"
  /\ i = 0
  /\ orphaned = <<>>
  /\ buttonDisabled = FALSE
  /\ now = 0
  /\ run = 0
  /\ resultsRun = 0
  /\ metricsRun = 0
  /\ runPublished = FALSE

\* The mount effect of MetroDashboard: setTrainsets(generateTrainsetData()).
\* It runs once (dependency list []), after the first render.
Mount ==
  /\ trainsets = <<>>
  /\ \E ds \in FleetDraws :
       trainsets' = generateTrainsetData(ds, now)
  /\ UNCHANGED << isSimulating, currentTime, activeTab, isOptimizing, progress,
                  results, metrics, optimizationLogs, pc, i, orphaned,
                  buttonDisabled, now, run, resultsRun, metricsRun, runPublished >>

\* A click on the trigger of tab t, another tab than the selected one.  The
\* content of the tab left is unmounted and the content of t is mounted.
\* Leaving the panel's tab discards the panel instance with its state; a
\* runOptimization call it has in flight keeps its timer and goes on, its
\* state updates no longer taking effect.  Entering the panel's tab mounts a
\* new instance, rendered from the initial state.
SelectTab(t) ==
  /\ trainsets # <<>>
  /\ t # activeTab
  /\ (activeTab = PanelTab /\ pc = "await") => Len(orphaned) < MaxOrphans
  /\ activeTab' = t
  /\ IF activeTab = PanelTab
       THEN /\ orphaned' =
                 IF pc = "await" THEN WithLiveCall(orphaned, run, i) ELSE orphaned
            /\ isOptimizing' = FALSE
            /\ progress' = ProgressZero
            /\ results' = <<>>
            /\ metrics' = NULL
            /\ optimizationLogs' = <<>>
            /\ pc' = "idle"
            /\ i' = 0
            /\ buttonDisabled' = FALSE
            /\ resultsRun' = 0
            /\ metricsRun' = 0
       ELSE UNCHANGED << orphaned, isOptimizing, progress, results, metrics,
                         optimizationLogs, pc, i, buttonDisabled, resultsRun,
                         metricsRun >>
  /\ UNCHANGED << trainsets, isSimulating, currentTime, now, run, runPublished >>

\* Faulty variant: the Run button is not disabled while a run is in flight.
StartRunWhileRunning ==
  /\ trainsets # <<>>
  /\ activeTab = PanelTab
  /\ run < MaxRuns
  /\ isOptimizing' = TRUE
  /\ progress' = ProgressZero
  /\ optimizationLogs' = <<>>
  /\ pc' = "await"
  /\ i' = 0
  /\ run' = run + 1
  /\ buttonDisabled' = RenderedDisabled(isOptimizing')
  /\ results' = AfterRender(results, metrics)
  /\ orphaned' = WithDue(orphaned, TRUE)
  /\ runPublished' = FALSE
  /\ UNCHANGED << trainsets, isSimulating, currentTime, activeTab, metrics,
                  now, resultsRun, metricsRun >>

\* A click on the enabled Run button of the mounted panel: runOptimization up
\* to its first await (setIsOptimizing(true), setProgress(0),
\* setOptimizationLogs([])), then the render of the click's updates, which
\* disables the button.
StartRun ==
  /\ trainsets # <<>>
  /\ activeTab = PanelTab
  /\ ~buttonDisabled
  /\ run < MaxRuns
  /\ isOptimizing' = TRUE
  /\ progress' = ProgressZero
  /\ optimizationLogs' = <<>>
  /\ pc' = "await"
  /\ i' = 0
  /\ run' = run + 1
  /\ buttonDisabled' = RenderedDisabled(isOptimizing')
  /\ results' = AfterRender(results, metrics)
  /\ orphaned' = WithDue(orphaned, TRUE)
  /\ runPublished' = FALSE
  /\ UNCHANGED << trainsets, isSimulating, currentTime, activeTab, metrics,
                  now, resultsRun, metricsRun >>

\* Faulty variant: the new log line is put in front of the earlier ones.
AdvanceNewestFirst ==
  /\ LiveTimerNext
  /\ i < LogCount - 1
  /\ now - currentTime < MaxFiringsPerTick
  /\ optimizationLogs' = <<logs[i + 1]>> \o optimizationLogs
  /\ progress' = ProgressAfter(i)
  /\ i' = i + 1
  /\ now' = now + 1
  /\ orphaned' = WithDue(orphaned, TRUE)
  /\ UNCHANGED << trainsets, isSimulating, currentTime, activeTab, isOptimizing,
                  results, metrics, pc, buttonDisabled, run,
                  resultsRun, metricsRun, runPublished >>

\* The 800 ms timer of an iteration other than the last fires: the log line
\* is appended and the progress set; the loop awaits the next timer.
Advance ==
  /\ LiveTimerNext
  /\ i < LogCount - 1
  /\ now - currentTime < MaxFiringsPerTick
  /\ optimizationLogs' = Append(optimizationLogs, logs[i + 1])
  /\ progress' = ProgressAfter(i)
  /\ i' = i + 1
  /\ now' = now + 1
  /\ orphaned' = WithDue(orphaned, TRUE)
  /\ UNCHANGED << trainsets, isSimulating, currentTime, activeTab, isOptimizing,
                  results, metrics, pc, buttonDisabled, run,
                  resultsRun, metricsRun, runPublished >>

\* Faulty variant: the last step publishes the results without setMetrics.
CompleteWithoutMetrics ==
  /\ LiveTimerNext
  /\ i = LogCount - 1
  /\ now - currentTime < MaxFiringsPerTick
  /\ optimizationLogs' = Append(optimizationLogs, logs[i + 1])
  /\ progress' = ProgressAfter(i)
  /\ now' = now + 1
  /\ \E ds \in ResultSetDraws : results' = MockResults(ds, now')
  /\ resultsRun' = run
  /\ runPublished' = TRUE
  /\ isOptimizing' = FALSE
  /\ pc' = "idle"
  /\ i' = 0
  /\ orphaned' = WithDue(orphaned, FALSE)
  /\ UNCHANGED << trainsets, isSimulating, currentTime, activeTab, metrics,
                  buttonDisabled, run, metricsRun >>

\* The timer of the last iteration fires: the last log line and progress,
\* then, without a further await, the mock results and metrics are built and
\* setResults, setMetrics and setIsOptimizing(false) are issued together.
Complete ==
  /\ LiveTimerNext
  /\ i = LogCount - 1
  /\ now - currentTime < MaxFiringsPerTick
  /\ optimizationLogs' = Append(optimizationLogs, logs[i + 1])
  /\ progress' = ProgressAfter(i)
  /\ now' = now + 1
  /\ \E ds \in ResultSetDraws, md \in MetricDraws :
       /\ results' = MockResults(ds, now')
       /\ metrics' = <<MockMetrics(md)>>
  /\ resultsRun' = run
  /\ metricsRun' = run
  /\ runPublished' = TRUE
  /\ isOptimizing' = FALSE
  /\ pc' = "idle"
  /\ i' = 0
  /\ orphaned' = WithDue(orphaned, FALSE)
  /\ UNCHANGED << trainsets, isSimulating, currentTime, activeTab,
                  buttonDisabled, run >>

\* The clock after the timer of the call o without a panel has fired.
ClockAfter(o) == IF PacesClock(o) THEN now + 1 ELSE now

\* The timer of a call whose panel instance is unmounted fires, in an
\* iteration other than the last: its setOptimizationLogs and setProgress
\* reach no component; the loop awaits the next timer, set behind the others.
OrphanAdvance ==
  /\ OrphanTimerNext
  /\ orphaned[1].i < LogCount - 1
  /\ PacesClock(orphaned[1]) => now - currentTime < MaxFiringsPerTick
  /\ now' = ClockAfter(orphaned[1])
  /\ orphaned' = Append(Tail(orphaned),
                        [orphaned[1] EXCEPT !.i = @ + 1, !.due = FALSE])
  /\ UNCHANGED << trainsets, isSimulating, currentTime, activeTab, isOptimizing,
                  progress, results, metrics, optimizationLogs, pc, i,
                  buttonDisabled, run, resultsRun, metricsRun, runPublished >>

\* The last timer of a call whose panel instance is unmounted fires: the call
\* runs to its end, and its setResults, setMetrics and setIsOptimizing(false)
\* reach no component.
OrphanComplete ==
  /\ OrphanTimerNext
  /\ orphaned[1].i = LogCount - 1
  /\ PacesClock(orphaned[1]) => now - currentTime < MaxFiringsPerTick
  /\ now' = ClockAfter(orphaned[1])
  /\ orphaned' = Tail(orphaned)
  /\ UNCHANGED << trainsets, isSimulating, currentTime, activeTab, isOptimizing,
                  progress, results, metrics, optimizationLogs, pc, i,
                  buttonDisabled, run, resultsRun, metricsRun, runPublished >>

\* A render of the mounted OptimizationPanel (after its own updates, or with
\* its parent after a clock tick): the button follows isOptimizing, and the
\* "all" list sorts the results array in place.
Render ==
  /\ activeTab = PanelTab
  /\ buttonDisabled' = RenderedDisabled(isOptimizing)
  /\ results' = AfterRender(results, metrics)
  /\ UNCHANGED << trainsets, isSimulating, currentTime, activeTab, isOptimizing,
                  progress, metrics, optimizationLogs, pc, i, orphaned, now, run,
                  resultsRun, metricsRun, runPublished >>

\* Faulty variant: the clock tick also regenerates the fleet.
TickRefreshingFleet ==
  /\ currentTime' = now
  /\ \E ds \in FleetDraws :
       trainsets' = generateTrainsetData(ds, now)
  /\ UNCHANGED << isSimulating, activeTab, isOptimizing, progress, results,
                  metrics, optimizationLogs, pc, i, orphaned, buttonDisabled, now,
                  run, resultsRun, metricsRun, runPublished >>

\* The 1000 ms interval of MetroDashboard fires: its callback,
\* setCurrentTime(new Date()).  The render of this update is a later step.
Tick ==
  /\ currentTime' = now
  /\ UNCHANGED << trainsets, isSimulating, activeTab, isOptimizing, progress,
                  results, metrics, optimizationLogs, pc, i, orphaned,
                  buttonDisabled, now, run, resultsRun, metricsRun, runPublished >>

\* A click on the Start/Stop Simulation button: setIsSimulating(!isSimulating),
\* and the dashboard renders again at the end of the click.  Whether that
\* render also applies the panel's updates still pending from a timer
\* continuation depends on the React the build has: either it does (the button
\* follows isOptimizing and the results are sorted), or it takes the click's
\* update only and the panel shows what it showed before, the pending updates
\* left to the later Render step.
ToggleSimulation ==
  /\ isSimulating' = ~isSimulating
  /\ \/ /\ buttonDisabled' = RenderedDisabled(isOptimizing)
        /\ results' = AfterRender(results, metrics)
     \/ UNCHANGED << buttonDisabled, results >>
  /\ UNCHANGED << trainsets, currentTime, activeTab, isOptimizing, progress,
                  metrics, optimizationLogs, pc, i, orphaned, now, run,
                  resultsRun, metricsRun, runPublished >>

Next ==
  \/ Mount
  \/ \E t \in OuterTabs : SelectTab(t)
  \/ StartRun
  \/ Advance
  \/ Complete
  \/ OrphanAdvance
  \/ OrphanComplete
  \/ Render
  \/ Tick
  \/ ToggleSimulation

Spec == Init /\ [][Next]_vars

\* The browser fires every pending timer: the setTimeout timers of every call
\* in flight and the dashboard's setInterval.
FairSpec ==
  /\ Spec
  /\ WF_vars(Advance) /\ WF_vars(Complete)
  /\ WF_vars(OrphanAdvance) /\ WF_vars(OrphanComplete)
  /\ WF_vars(Tick)

\* ------------------------------------------- MetroDashboard: the key metrics
\* trainsets.filter(t => t.status === 'critical').length
criticalAlerts(ts) ==
  Cardinality({k \in 1..Len(ts) : ts[k].status = "critical"})

\* trainsets.filter(t => t.recommendedAction === a).length: readyForService
\* for 'induct', maintenanceRequired for 'maintenance', the standby card.
ActionCount(ts, a) ==
  Cardinality({k \in 1..Len(ts) : ts[k].recommendedAction = a})

\* The arithmetic of Math.round((n / d) * 100) is that of IEEE-754 doubles:
\* the quotient and the product are each rounded to 53 significant bits, to
\* nearest, ties to even.  A positive double is modelled as [limbs, point]:
\* its 53-bit significand as 5 digits in base 2^13, most significant first,
\* the first of them the leading bit 1, and the number of significant bits
\* that stand before the binary point (0 or less when the value is below 1/2).
LimbBits == 13
Limb == 2^LimbBits
LimbCount == 5
SignificandBits == 1 + (LimbCount - 1) * LimbBits

\* The natural number with the digits ls in base 2^13.
RECURSIVE LimbsValue(_)
LimbsValue(ls) ==
  IF ls = <<>> THEN 0
  ELSE Limb * LimbsValue(SubSeq(ls, 1, Len(ls) - 1)) + ls[Len(ls)]

\* ls + 1 on digits in base 2^13; the first digit takes the last carry.
RECURSIVE IncrementLimbs(_)
IncrementLimbs(ls) ==
  IF Len(ls) = 1 \/ ls[Len(ls)] < Limb - 1
  THEN [ls EXCEPT ![Len(ls)] = @ + 1]
  ELSE IncrementLimbs(SubSeq(ls, 1, Len(ls) - 1)) \o << 0 >>

\* The digits of floor(ls / 2^k), the first digit of ls of any size.
ShiftRight(ls, k) ==
  LET whole == k \div LimbBits
      s == k % LimbBits
      kept == IF whole >= Len(ls) THEN <<>> ELSE SubSeq(ls, 1, Len(ls) - whole)
  IN [ j \in 1..Len(kept) |->
         (kept[j] \div 2^s)
           + (IF j = 1 THEN 0 ELSE (kept[j - 1] % 2^s) * 2^(LimbBits - s)) ]

\* The significand ls, followed by the digits dropped below it (out of a
\* whole of 2 * half, with more nonzero digits after them when sticky),
\* rounded to nearest, ties to even.
RoundToDouble(ls, dropped, half, sticky, point) ==
  LET up == \/ dropped > half
            \/ dropped = half /\ (sticky \/ ls[Len(ls)] % 2 = 1)
      inc == IncrementLimbs(ls)
  IN IF ~up THEN [limbs |-> ls, point |-> point]
     ELSE IF inc[1] = 1 THEN [limbs |-> inc, point |-> point]
     ELSE [limbs |-> ShiftRight(inc, 1), point |-> point + 1]

\* n and d doubled until d <= n < 2d, with the position of the binary point
\* of n / d.
RECURSIVE Normalized(_, _, _)
Normalized(n, d, point) ==
  IF n >= 2 * d THEN Normalized(n, 2 * d, point + 1)
  ELSE IF n < d THEN Normalized(2 * n, d, point - 1)
  ELSE [n |-> n, d |-> d, point |-> point]

\* The next k digits in base 2^13 of rem / d, for rem < d.
RECURSIVE QuotientLimbs(_, _, _)
QuotientLimbs(rem, d, k) ==
  IF k = 0 THEN <<>>
  ELSE << (rem * Limb) \div d >> \o QuotientLimbs((rem * Limb) % d, d, k - 1)

\* What is left of rem after k digits of rem / d.
RECURSIVE QuotientRest(_, _, _)
QuotientRest(rem, d, k) ==
  IF k = 0 THEN rem ELSE QuotientRest((rem * Limb) % d, d, k - 1)

\* n / d in doubles, for integers 0 < n, d < 2^17.
DoubleQuotient(n, d) ==
  LET nd == Normalized(n, d, 1)
      digits == << 1 >> \o QuotientLimbs(nd.n - nd.d, nd.d, LimbCount)
  IN RoundToDouble(SubSeq(digits, 1, LimbCount), digits[LimbCount + 1],
                   Limb \div 2,
                   QuotientRest(nd.n - nd.d, nd.d, LimbCount) # 0, nd.point)

\* The digits of ls * m + carry, for an integer 0 < m < 2^12: digit by digit
\* from the last, the first digit taking all that is left.
RECURSIVE TimesLimbs(_, _, _)
TimesLimbs(ls, m, carry) ==
  LET t == ls[Len(ls)] * m + carry
  IN IF Len(ls) = 1 THEN << t >>
     ELSE TimesLimbs(SubSeq(ls, 1, Len(ls) - 1), m, t \div Limb) \o << t % Limb >>

\* The number of binary digits of the natural number c.
RECURSIVE BitLength(_)
BitLength(c) == IF c = 0 THEN 0 ELSE 1 + BitLength(c \div 2)

\* x * m in doubles, for a positive double x and an integer 0 < m < 2^12.
DoubleTimes(x, m) ==
  LET product == TimesLimbs(x.limbs, m, 0)
      extra == BitLength(product[1]) - 1
  IN RoundToDouble(ShiftRight(product, extra),
                   product[LimbCount] % 2^extra,
                   IF extra = 0 THEN 1 ELSE 2^(extra - 1),
                   FALSE, x.point + extra)

\* Math.round(x) for a positive double x below 2^30: the nearest integer,
\* halves rounded up.
MathRound(x) ==
  LET whole == LimbsValue(ShiftRight(x.limbs, SignificandBits - x.point))
      halves == ShiftRight(x.limbs, SignificandBits - x.point - 1)
      half == halves # <<>> /\ halves[Len(halves)] % 2 = 1
  IN IF half THEN whole + 1 ELSE whole

\* Math.round((n / d) * 100) for integers 0 <= n, d < 2^17: 0/0 is NaN and
\* n/0 is Infinity, which Math.round returns unchanged; otherwise the quotient
\* and the product as the doubles the code computes, and of that the nearest
\* integer, halves rounded up (Math.round((23 / 40) * 100) is 57).
RoundPercent(n, d) ==
  IF d = 0 THEN [kind |-> IF n = 0 THEN "NaN" ELSE "Infinity", val |-> 0]
  ELSE IF n = 0 THEN [kind |-> "number", val |-> 0]
  ELSE [kind |-> "number", val |-> MathRound(DoubleTimes(DoubleQuotient(n, d), 100))]

\* "Ready for Service": Math.round((readyForService / trainsets.length) * 100)
ReadyPercent(ts) == RoundPercent(ActionCount(ts, "induct"), Len(ts))

\* "Fleet Availability":
\* Math.round(((trainsets.length - criticalAlerts) / trainsets.length) * 100)
AvailabilityPercent(ts) == RoundPercent(Len(ts) - criticalAlerts(ts), Len(ts))

\* ------------------------------------------- the engine contract (spec.md)
\* Configuration defaults of the specified engine.
InductionThreshold == 70
BlockingJobCardThreshold == 0

AllCertificatesValid(t) ==
  t.fitness.rollingStock /\ t.fitness.signalling /\ t.fitness.telecom

\* feasible_actions(trainset): an expired certificate forces Maintenance, open
\* job cards above the threshold exclude Induct, Maintenance is always feasible.
FeasibleActions(t) ==
  IF ~AllCertificatesValid(t) THEN {"maintenance"}
  ELSE IF t.jobCards.open > BlockingJobCardThreshold THEN {"standby", "maintenance"}
  ELSE {"induct", "standby", "maintenance"}

\* assign(): Induct if feasible and score >= threshold, else Standby if
\* feasible, else Maintenance.
PreferredAction(feasible, score) ==
  IF "induct" \in feasible /\ score >= InductionThreshold THEN "induct"
  ELSE IF "standby" \in feasible THEN "standby"
  ELSE "maintenance"

\* ---------------------------------------------------------------- helpers
TrainsetIndexes == 1..Len(trainsets)
ResultIndexes == 1..Len(results)

\* The results held for trainset t (matched by its number).
ResultsFor(t) == {r \in ResultIndexes : results[r].trainsetId = t.number}

\* A result without its timestamp.
Outcome(r) ==
  [ trainsetId |-> r.trainsetId, action |-> r.action, score |-> r.score,
    reasoning |-> r.reasoning, constraints |-> r.constraints ]

\* The content of a result list, whatever its order.
OutcomeSet(res) == {Outcome(res[r]) : r \in 1..Len(res)}

RECURSIVE SumScores(_)
SumScores(res) ==
  IF res = <<>> THEN 0 ELSE Head(res).score + SumScores(Tail(res))

\* a/b < c/d and a/b <= c/d for fractions with positive denominators
FracLess(x, y) == x.num * y.den < y.num * x.den
FracLeq(x, y) == x.num * y.den <= y.num * x.den
FracOf(n) == [num |-> n, den |-> 1]

\* The lifecycle state of the latest run instance, as the panel shows it:
\* Running while isOptimizing, Complete once its publication has taken effect,
\* Failed when it has stopped being shown as running without one.
RunState ==
  IF run = 0 THEN "Idle"
  ELSE IF isOptimizing THEN "Running"
  ELSE IF runPublished THEN "Complete"
  ELSE "Failed"

\* Call number n is in flight: started, and its last continuation not yet run.
InFlight(n) ==
  \/ n = run /\ pc = "await"
  \/ \E k \in 1..Len(orphaned) : orphaned[k].id = n

\* The number of runOptimization calls in flight.
CallsInFlight == (IF pc = "await" THEN 1 ELSE 0) + Len(orphaned)

\* ------------------------------------------------------------------ claims

\* C1: a trainset with an invalid fitness certificate (rolling-stock,
\* signalling or telecom) is never assigned Induct, neither as its
\* recommendation nor in an optimization result.
C1_NoInductWithExpiredCertificate ==
  \A k \in TrainsetIndexes :
    ~AllCertificatesValid(trainsets[k]) =>
      /\ trainsets[k].recommendedAction # "induct"
      /\ \A r \in ResultsFor(trainsets[k]) : results[r].action # "induct"

\* C2: after a completed run the result set holds exactly one result per
\* trainset of the snapshot, none for a trainset outside it, and every
\* result's action is in its trainset's feasible set.
C2_OneFeasibleResultPerTrainset ==
  resultsRun > 0 =>
    /\ Len(results) = Len(trainsets)
    /\ \A k \in TrainsetIndexes : Cardinality(ResultsFor(trainsets[k])) = 1
    /\ \A r \in ResultIndexes :
         \E k \in TrainsetIndexes :
           /\ results[r].trainsetId = trainsets[k].number
           /\ results[r].action \in FeasibleActions(trainsets[k])

\* The part of C2 the code does keep: one result per trainset, no other.
ResultsCoverFleetExactlyOnce ==
  resultsRun > 0 =>
    /\ Len(results) = Len(trainsets)
    /\ \A k \in TrainsetIndexes : Cardinality(ResultsFor(trainsets[k])) = 1
    /\ \A r \in ResultIndexes :
         \E k \in TrainsetIndexes : results[r].trainsetId = trainsets[k].number

\* C3: every assigned action follows the preference rule: Induct exactly when
\* Induct is feasible and the score reaches the threshold, else Standby if
\* feasible, else Maintenance; for results and for recommendations.
C3_ActionFollowsPreferenceRule ==
  \A k \in TrainsetIndexes :
    /\ trainsets[k].recommendedAction =
         PreferredAction(FeasibleActions(trainsets[k]), trainsets[k].confidenceScore)
    /\ \A r \in ResultsFor(trainsets[k]) :
         results[r].action =
           PreferredAction(FeasibleActions(trainsets[k]), results[r].score)

\* C4: a run on the same snapshot as the run before it publishes the same
\* result set (id, action, score, reasoning, constraints) and the same metrics.
C4_RerunIsDeterministic ==
  [][ (resultsRun > 0 /\ resultsRun' > resultsRun /\ trainsets' = trainsets) =>
        /\ OutcomeSet(results') = OutcomeSet(results)
        /\ metrics' = metrics ]_vars

\* C5: whenever metrics are present, overallScore is the average of the
\* scores of the visible results (up to rounding to an integer).
C5_OverallScoreIsAverage ==
  metrics # NULL =>
    LET n == Len(results)
        d == metrics[1].overallScore * n - SumScores(results)
    IN n > 0 /\ -n < d /\ d < n

\* C6: no partial visibility: either nothing is visible (results empty and
\* metrics null), or results and metrics are both set, by the same run, and
\* that run has completed; all visible results carry that run's timestamp.
C6_NoPartialVisibility ==
  \/ /\ results = <<>>
     /\ metrics = NULL
     /\ resultsRun = 0
     /\ metricsRun = 0
  \/ /\ results # <<>>
     /\ metrics # NULL
     /\ resultsRun >= 1
     /\ resultsRun = metricsRun
     /\ (resultsRun < run \/ (pc = "idle" /\ ~isOptimizing))
     /\ \A r \in ResultIndexes : results[r].timestamp = results[1].timestamp

\* A second run is in flight while the first run's results and metrics are
\* the visible ones.
C6_Witness ==
  /\ run = 2
  /\ pc = "await"
  /\ i > 0
  /\ resultsRun = 1
  /\ metricsRun = 1
  /\ results # <<>>
  /\ metrics # NULL

\* C7: a published result collection is immutable: as long as it is the
\* collection of the same run, no step changes its content or element order.
C7_PublishedResultsImmutable ==
  [][ resultsRun' = resultsRun => results' = results ]_vars

\* C8: a trainset with open job cards above the blocking threshold is never
\* assigned Induct, neither as its recommendation nor in an optimization result.
C8_NoInductWithOpenJobCards ==
  \A k \in TrainsetIndexes :
    trainsets[k].jobCards.open > BlockingJobCardThreshold =>
      /\ trainsets[k].recommendedAction # "induct"
      /\ \A r \in ResultsFor(trainsets[k]) : results[r].action # "induct"

\* C9: from the start of a run until its results are published the progress
\* stays within 0..100, never decreases, and every loop iteration (one more
\* log line) sets a value strictly greater than the one before.  The signal
\* is the progress of the panel instance that runs the call: it ends with the
\* instance.
C9_ProgressMonotonicBounded ==
  [][ /\ FracLeq(FracOf(0), progress') /\ FracLeq(progress', FracOf(100))
      /\ (pc = "await" /\ activeTab' = activeTab => FracLeq(progress, progress'))
      /\ (pc = "await" /\ activeTab' = activeTab
            /\ optimizationLogs' # optimizationLogs =>
              FracLess(progress, progress')) ]_vars

\* A run has gone through all its updates and its progress stands at 100.
C9_Witness ==
  /\ run > 0
  /\ pc = "idle"
  /\ Len(optimizationLogs) = LogCount
  /\ progress.num = 100 * progress.den

\* C10: the lifecycle starts Idle; within one run instance the state only
\* moves Running -> Complete (or Running -> Failed); a terminal run keeps its
\* state and its outcome (the outcome is never altered: it stays as it is
\* until the panel instance holding it is discarded); Running is entered only
\* by a fresh instance, started from Idle or from a terminal state.
C10_Lifecycle ==
  /\ RunState = "Idle"
  /\ [][ /\ run' = run =>
              \/ RunState' = RunState
              \/ (RunState = "Running" /\ RunState' \in {"Complete", "Failed"})
         /\ (run' = run /\ RunState \in {"Complete", "Failed"}) =>
              \/ /\ OutcomeSet(results') = OutcomeSet(results)
                 /\ metrics' = metrics
              \/ /\ activeTab = PanelTab /\ activeTab' # PanelTab
                 /\ results' = <<>>
                 /\ metrics' = NULL
         /\ run' # run =>
              /\ run' = run + 1
              /\ RunState \in {"Idle", "Complete", "Failed"}
              /\ RunState' = "Running" ]_vars

\* A second run instance has gone Running -> Complete.
C10_Witness ==
  /\ run = 2
  /\ RunState = "Complete"

\* The number k of the trainset whose id is TrainNumber(k).
IdNumber(id) == CHOOSE k \in 1..FleetSize : TrainNumber(k) = id

\* A list is ranked: scores descend, equal scores in ascending trainsetId.
IsRanked(l) ==
  \A a, b \in 1..Len(l) :
    a < b =>
      \/ l[a].score > l[b].score
      \/ /\ l[a].score = l[b].score
         /\ IdNumber(l[a].trainsetId) < IdNumber(l[b].trainsetId)

\* C11: whatever the state a render starts from (results fresh from a run, or
\* already reordered by earlier renders), every list it shows, "all" and each
\* action tab, is in descending score order with ties in ascending trainsetId.
C11_DisplayedListsRanked ==
  \A tab \in ResultTabs : IsRanked(DisplayedList(results, metrics, tab))

\* The results of a second run, already sorted in place by a render, hold two
\* results of equal score and equal action.
C11_Witness ==
  /\ resultsRun = 2
  /\ metrics # NULL
  /\ results = SortByScoreDesc(results)
  /\ \E a, b \in ResultIndexes :
       /\ a < b
       /\ results[a].score = results[b].score
       /\ results[a].action = results[b].action
       /\ Len(DisplayedList(results, metrics, results[a].action)) >= 2

\* The five per-objective sub-scores the program produces: those of the
\* metrics of a run.
SubScores(m) ==
  << m.serviceReadiness, m.costEfficiency, m.brandingCompliance,
     m.maintenanceOptimization, m.stablingEfficiency >>

\* The integer c is a weighted sum of the integers subs, rounded, for some
\* weights that are not negative and sum to 1: such sums are exactly the
\* values between the smallest and the largest of subs.
IsWeightedSumOf(c, subs) ==
  /\ \E k \in 1..Len(subs) : subs[k] <= c
  /\ \E k \in 1..Len(subs) : c <= subs[k]

\* C12: every composite score produced, the score of each result, the
\* confidenceScore of each trainset and the overallScore of the metrics, is an
\* integer within 0..100; the five sub-scores lie within 0..100, and the score
\* of each result is a weighted sum of the five sub-scores of its run.
C12_CompositeIsWeightedSum ==
  /\ \A k \in TrainsetIndexes : trainsets[k].confidenceScore \in 0..100
  /\ \A r \in ResultIndexes : results[r].score \in 0..100
  /\ metrics # NULL =>
       /\ metrics[1].overallScore \in 0..100
       /\ \A k \in 1..5 : SubScores(metrics[1])[k] \in 0..100
       /\ \A r \in ResultIndexes :
            IsWeightedSumOf(results[r].score, SubScores(metrics[1]))

\* C13: every trainset of the fleet has 0 <= jobCards.open <= jobCards.total.
C13_OpenJobCardsWithinTotal ==
  \A k \in TrainsetIndexes :
    /\ 0 <= trainsets[k].jobCards.open
    /\ trainsets[k].jobCards.open <= trainsets[k].jobCards.total

\* A trainset with the most open job cards and the smallest total the
\* generator can draw.
C13_Witness ==
  \E k \in TrainsetIndexes :
    /\ trainsets[k].jobCards.open = JobCardsOf(Scale - 1, 0).open
    /\ trainsets[k].jobCards.total = JobCardsOf(Scale - 1, 0).total

\* C14: every trainset of the fleet has mileage.variance = mileage.current -
\* mileage.target, with current >= 0 and target >= 0.
C14_VarianceIsCurrentMinusTarget ==
  \A k \in TrainsetIndexes :
    /\ trainsets[k].mileage.current >= 0
    /\ trainsets[k].mileage.target >= 0
    /\ trainsets[k].mileage.variance =
         trainsets[k].mileage.current - trainsets[k].mileage.target

\* C15: the fleet snapshot is read-only once created: after the mount effect
\* has filled trainsets no step (clock tick, simulation toggle, tab change,
\* any step of a run, render) changes it; and results become visible (the
\* panel comes to hold results of another content) only in the publication
\* step that ends a run.
C15_FleetReadOnlyResultsAtPublication ==
  [][ /\ trainsets # <<>> => trainsets' = trainsets
      /\ (results' # <<>> /\ OutcomeSet(results') # OutcomeSet(results)) =>
           /\ pc = "await" /\ i = LogCount - 1
           /\ pc' = "idle" /\ ~isOptimizing'
           /\ resultsRun' = run
           /\ metrics' # NULL ]_vars

\* The clock has ticked during a run, the simulation is switched on and a
\* run has published, with the fleet in place.
C15_Witness ==
  /\ trainsets # <<>>
  /\ currentTime > 0
  /\ isSimulating
  /\ resultsRun = 1
  /\ run = 2
  /\ pc = "await"

\* C16: at most one run is in flight: a runOptimization call starts only when
\* none is in flight and isOptimizing is false; the panel's isOptimizing is true
\* exactly while a call is in flight, turning true at a start and false at that run's
\* publication; logs and progress change only by the start's reset or by the
\* next iteration of the one call in flight.
C16_SingleRunInFlight ==
  /\ [](CallsInFlight <= 1)
  /\ [](activeTab = PanelTab => (isOptimizing <=> CallsInFlight = 1))
  /\ [][ /\ run' # run =>
              /\ run' = run + 1
              /\ ~isOptimizing /\ pc = "idle"
              /\ isOptimizing' /\ optimizationLogs' = <<>> /\ progress' = ProgressZero
         /\ (run' = run /\ isOptimizing' # isOptimizing) =>
              /\ isOptimizing /\ ~isOptimizing'
              /\ resultsRun' = run /\ metricsRun' = run
         /\ (run' = run /\ << optimizationLogs, progress >>' # << optimizationLogs, progress >>) =>
              /\ isOptimizing
              /\ i < LogCount
              /\ optimizationLogs' = Append(optimizationLogs, logs[i + 1])
              /\ Len(optimizationLogs') = i + 1 ]_vars

\* What the code does keep: one panel instance never has two calls in
\* flight, and a call starts only from a panel that shows no run.
OneCallPerPanelInstance ==
  /\ [](isOptimizing <=> pc = "await")
  /\ [](pc = "await" => activeTab = PanelTab)
  /\ [][ run' # run => (~isOptimizing /\ pc = "idle" /\ isOptimizing') ]_vars

\* C17: the log is always the first messages of the list in list order, one
\* more per step of the run, and progress = 100 * (messages emitted) / 11;
\* results and metrics are published only in a state with all 11 messages
\* emitted and progress at 100; a call that ends in its mounted panel
\* publishes and sets isOptimizing false; and, the timers firing, every call
\* that has started runs to its last continuation, the publication step.
C17_StagesProgressAndCompletion ==
  /\ LogCount = 11
  /\ [] /\ Len(optimizationLogs) <= LogCount
        /\ optimizationLogs = SubSeq(logs, 1, Len(optimizationLogs))
        /\ progress.num * 11 = 100 * Len(optimizationLogs) * progress.den
        /\ isOptimizing <=> pc = "await"
  /\ [][ /\ (run' = run /\ activeTab' = activeTab) =>
              Len(optimizationLogs') \in
                {Len(optimizationLogs), Len(optimizationLogs) + 1}
         /\ ( \/ results' # <<>> /\ OutcomeSet(results') # OutcomeSet(results)
              \/ metrics' # NULL /\ metrics' # metrics
              \/ resultsRun' \notin {0, resultsRun}
              \/ metricsRun' \notin {0, metricsRun}
              \/ runPublished' /\ ~runPublished ) =>
              /\ Len(optimizationLogs') = LogCount
              /\ progress'.num = 100 * progress'.den
              /\ resultsRun' = run /\ metricsRun' = run /\ runPublished'
         /\ (pc = "await" /\ pc' = "idle" /\ activeTab' = activeTab) =>
              /\ ~isOptimizing'
              /\ resultsRun' = run /\ metricsRun' = run ]_vars
  /\ \A n \in 1..MaxRuns : (run >= n) ~> (run >= n /\ ~InFlight(n))

\* A second run is half way, five messages emitted and nothing published by
\* it yet, while the first call, its panel instance unmounted, awaits its
\* last timer.
C17_Witness ==
  /\ run = 2
  /\ isOptimizing
  /\ Len(optimizationLogs) = 5
  /\ progress = ProgressAfter(4)
  /\ results = <<>>
  /\ metrics = NULL
  /\ Len(orphaned) = 1
  /\ orphaned[1].i = LogCount - 1

\* C18: in every rendered state of the dashboard, the first render with
\* trainsets empty included, the "Ready for Service" and "Fleet Availability"
\* percentages are integers within 0..100, and the induct, standby and
\* maintenance counts sum to trainsets.length.
C18_DashboardPercentagesDefined ==
  /\ ReadyPercent(trainsets).kind = "number"
  /\ ReadyPercent(trainsets).val \in 0..100
  /\ AvailabilityPercent(trainsets).kind = "number"
  /\ AvailabilityPercent(trainsets).val \in 0..100
  /\ ActionCount(trainsets, "induct") + ActionCount(trainsets, "standby")
       + ActionCount(trainsets, "maintenance") = Len(trainsets)

\* What the code does keep once the fleet is mounted.
DashboardPercentagesDefinedOnceMounted ==
  trainsets # <<>> => C18_DashboardPercentagesDefined

====
